---- MODULE Spec2Model ----
(***************************************************************************)
(* Model of pkg/util/replicateutil ReplicateConfigValidator.               *)
(*                                                                         *)
(* Go strings are modelled as sequences of one-character strings, so that  *)
(* string concatenation (the edge keys "S->T"), emptiness and the          *)
(* whitespace test are computed as the code computes them.  A nil pointer  *)
(* is a record with isNil = TRUE; the protobuf getters are nil-safe and    *)
(* return the zero value on a nil receiver, as the generated Go code does. *)
(***************************************************************************)
EXTENDS Integers, Sequences, FiniteSets, TLC

VARIABLES
    incomingConfig,        \* v.incomingConfig
    currentConfig,         \* v.currentConfig
    currentClusterID,      \* v.currentClusterID
    currentPChannels,      \* v.currentPChannels
    clusterMap,            \* v.clusterMap
    isPChannelIncreasing,  \* v.isPChannelIncreasing
    pc,                    \* position inside Validate()
    err,                   \* the error Validate() returns (NoErr = nil)
    trace,                 \* phases entered by the running call, in order
    calls,                 \* number of Validate() calls started on this instance
    firstErr,              \* result of the first Validate() call on this instance
    argA,                  \* a direct call of equalIgnoreOrder: its argument a
    argB,                  \* a direct call of equalIgnoreOrder: its argument b
    argTopologies,         \* a direct call of validateTopologyTypeConstraint: its argument
    result                 \* the value a direct call of equalIgnoreOrder has returned

vars == <<incomingConfig, currentConfig, currentClusterID, currentPChannels,
          clusterMap, isPChannelIncreasing, pc, err, trace, calls, firstErr,
          argA, argB, argTopologies, result>>

\* the variables of the direct calls, which Validate() never touches
direct == <<argA, argB, argTopologies, result>>

inputs == <<incomingConfig, currentConfig, currentClusterID, currentPChannels>>

----------------------------------------------------------------------------
(* Bounds of the model *)

MaxClusters == 3
MaxEdges == 3
MaxPChannels == 2
MaxCalls == 2

----------------------------------------------------------------------------
(* Strings *)

EmptyString == <<>>
Arrow == <<"-", ">">>

IdA == <<"a">>
IdB == <<"b">>
IdC == <<"c">>
IdD == <<"d">>
IdAA == <<"a", "-", ">", "a">>      \* the cluster ID "a->a"
IdWs == <<"a", " ">>                 \* the cluster ID "a "
IdZ == <<"z">>                       \* an ID used only as an undeclared one

Uri1 == <<"h", ":", "1">>
Uri2 == <<"h", ":", "2">>
Uri3 == <<"h", ":", "3">>
Uri4 == <<"h", ":", "4">>
Uri5 == <<"h", ":", "5">>
UriPath == <<"/", "h">>
UriNoScheme == <<"h", "-", "1">>
UriDigitFirst == <<"1", ":", "h">>

Tok1 == <<"s">>
Tok2 == <<"t">>

ChP == <<"p">>
ChQ == <<"q">>
ChR == <<"r">>
ChS == <<"s">>

Letters == {"a", "b", "c", "d", "h", "p", "q", "r", "s", "t", "z"}
Digits == {"0", "1", "2", "3", "4", "5"}
Whitespace == {" ", "\t", "\n", "\r"}

\* strings.ContainsAny(s, chars)
ContainsAny(s, chars) == \E i \in 1..Len(s) : s[i] \in chars

\* net/url getScheme: the scheme of rawURL, or "" when it has none;
\* "missing protocol scheme" (a leading colon) is reported as [ok |-> FALSE]
RECURSIVE getScheme(_, _)
getScheme(rawURL, i) ==
    IF i > Len(rawURL) THEN [ok |-> TRUE, scheme |-> EmptyString]
    ELSE IF rawURL[i] \in Letters THEN getScheme(rawURL, i + 1)
    ELSE IF rawURL[i] \in Digits \cup {"+", "-", "."}
         THEN IF i = 1 THEN [ok |-> TRUE, scheme |-> EmptyString]
              ELSE getScheme(rawURL, i + 1)
    ELSE IF rawURL[i] = ":"
         THEN IF i = 1 THEN [ok |-> FALSE, scheme |-> EmptyString]
              ELSE [ok |-> TRUE, scheme |-> SubSeq(rawURL, 1, i - 1)]
    ELSE [ok |-> TRUE, scheme |-> EmptyString]

\* url.ParseRequestURI(uri) returns no error, over the alphabet
\* Letters, Digits, ':', '/', '-', ' ' (no escapes, no host part)
ParseRequestURI(uri) ==
    /\ uri # EmptyString
    /\ ~ContainsAny(uri, {"\t", "\n", "\r"})
    /\ \/ uri = <<"*">>
       \/ /\ getScheme(uri, 1).ok
          /\ \/ getScheme(uri, 1).scheme # EmptyString
             \/ uri[1] = "/"

----------------------------------------------------------------------------
(* commonpb messages and their nil-safe getters *)

NilConfig == [isNil |-> TRUE]
NilCluster == [isNil |-> TRUE]
NilConn == [isNil |-> TRUE]
NilTopology == [isNil |-> TRUE]

ConnectionParam(uri, token) == [isNil |-> FALSE, uri |-> uri, token |-> token]
MilvusCluster(id, conn, pchannels) ==
    [isNil |-> FALSE, cluster_id |-> id, connection_param |-> conn, pchannels |-> pchannels]
CrossClusterTopology(s, t) ==
    [isNil |-> FALSE, source_cluster_id |-> s, target_cluster_id |-> t]
ReplicateConfiguration(clusters, topologies) ==
    [isNil |-> FALSE, clusters |-> clusters, cross_cluster_topology |-> topologies]

GetClusters(cfg) == IF cfg.isNil THEN <<>> ELSE cfg.clusters
GetCrossClusterTopology(cfg) == IF cfg.isNil THEN <<>> ELSE cfg.cross_cluster_topology
GetClusterId(c) == IF c.isNil THEN EmptyString ELSE c.cluster_id
GetConnectionParam(c) == IF c.isNil THEN NilConn ELSE c.connection_param
GetPchannels(c) == IF c.isNil THEN <<>> ELSE c.pchannels
GetUri(p) == IF p.isNil THEN EmptyString ELSE p.uri
GetToken(p) == IF p.isNil THEN EmptyString ELSE p.token
GetSourceClusterId(t) == IF t.isNil THEN EmptyString ELSE t.source_cluster_id
GetTargetClusterId(t) == IF t.isNil THEN EmptyString ELSE t.target_cluster_id

----------------------------------------------------------------------------
(* Errors: the kind is the fixed part of the message, idx and id are the   *)
(* index and the cluster ID the message is formatted with                  *)

NoErr == [kind |-> "nil", idx |-> 0, id |-> EmptyString]
\* the value of firstErr while the first call has not returned
Pending == [kind |-> "pending", idx |-> 0, id |-> EmptyString]
Error(kind, idx, id) == [kind |-> kind, idx |-> idx, id |-> id]

EmptyMap == <<>>

\* mutant: the map is replaced by one that holds the new entry only
Put_OnlyLast(m, k, v) == (k :> v)

Put(m, k, v) == (k :> v) @@ m
Has(m, k) == k \in DOMAIN m

----------------------------------------------------------------------------
(* validateClusterBasic *)

\* the inner loop over one cluster's pchannels (emptiness, uniqueness)
RECURSIVE pchannelLoop(_, _, _, _)
pchannelLoop(clusterID, pchannels, j, pchannelSet) ==
    IF j > Len(pchannels) THEN NoErr
    ELSE IF pchannels[j] = EmptyString
         THEN Error("empty pchannel", j - 1, clusterID)
    ELSE IF pchannels[j] \in pchannelSet
         THEN Error("duplicate pchannel", j - 1, clusterID)
    ELSE pchannelLoop(clusterID, pchannels, j + 1, pchannelSet \cup {pchannels[j]})

\* if existingClusterID, exists := uriSet[uri]; exists
URIExists(uriSet, uri) == Has(uriSet, uri)

\* mutant: only a smaller count is a mismatch
PchannelCountMismatch_LessOnly(i, pchannels, expectedPchannelCount) ==
    i # 0 /\ Len(pchannels) < expectedPchannelCount

\* mutant: the pchannel counts of the clusters are not compared
PchannelCountMismatch_Never(i, pchannels, expectedPchannelCount) == FALSE

\* i != 0 && len(pchannels) != expectedPchannelCount
PchannelCountMismatch(i, pchannels, expectedPchannelCount) ==
    i # 0 /\ Len(pchannels) # expectedPchannelCount

\* mutant: the cluster map is written without the lookup
ClusterIDExists_Never(cmap, clusterID) == FALSE

\* if _, exists := v.clusterMap[clusterID]; exists
ClusterIDExists(cmap, clusterID) == Has(cmap, clusterID)

\* mutant: the URI uniqueness test moved behind the pchannel tests
clusterFormat_UriUniquenessLast(i, cluster, uriSet) ==
    LET clusterID == GetClusterId(cluster)
        connParam == GetConnectionParam(cluster)
        uri == GetUri(connParam)
        pchannels == GetPchannels(cluster)
    IN  IF cluster.isNil THEN Error("cluster is nil", i, EmptyString)
        ELSE IF clusterID = EmptyString THEN Error("empty clusterID", i, clusterID)
        ELSE IF ContainsAny(clusterID, Whitespace)
             THEN Error("clusterID containing whitespace characters", i, clusterID)
        ELSE IF connParam.isNil THEN Error("nil connection_param", i, clusterID)
        ELSE IF uri = EmptyString THEN Error("empty URI", i, clusterID)
        ELSE IF ~ParseRequestURI(uri) THEN Error("invalid URI format", i, clusterID)
        ELSE IF Len(pchannels) = 0 THEN Error("empty pchannels", i, clusterID)
        ELSE LET e == pchannelLoop(clusterID, pchannels, 1, {})
             IN  IF e # NoErr THEN Error(e.kind, i, clusterID)
                 ELSE IF URIExists(uriSet, uri) THEN Error("duplicate URI found", i, clusterID)
                 ELSE NoErr

\* the checks of one loop iteration that precede the slot-count check
clusterFormat(i, cluster, uriSet) ==
    LET clusterID == GetClusterId(cluster)
        connParam == GetConnectionParam(cluster)
        uri == GetUri(connParam)
        pchannels == GetPchannels(cluster)
    IN  IF cluster.isNil THEN Error("cluster is nil", i, EmptyString)
        ELSE IF clusterID = EmptyString THEN Error("empty clusterID", i, clusterID)
        ELSE IF ContainsAny(clusterID, Whitespace)
             THEN Error("clusterID containing whitespace characters", i, clusterID)
        ELSE IF connParam.isNil THEN Error("nil connection_param", i, clusterID)
        ELSE IF uri = EmptyString THEN Error("empty URI", i, clusterID)
        ELSE IF ~ParseRequestURI(uri) THEN Error("invalid URI format", i, clusterID)
        ELSE IF URIExists(uriSet, uri) THEN Error("duplicate URI found", i, clusterID)
        ELSE IF Len(pchannels) = 0 THEN Error("empty pchannels", i, clusterID)
        ELSE LET e == pchannelLoop(clusterID, pchannels, 1, {})
             IN  IF e # NoErr THEN Error(e.kind, i, clusterID) ELSE NoErr

\* the loop of validateClusterBasic from (Go) index i on; the result carries
\* the cluster map as the call leaves it, also when it returns an error
RECURSIVE basicLoop(_, _, _, _, _, _)
basicLoop(clusters, i, uriSet, expectedPchannelCount, firstClusterID, cmap) ==
    IF i >= Len(clusters) THEN [err |-> NoErr, clusterMap |-> cmap]
    ELSE
    LET cluster == clusters[i + 1]
        clusterID == GetClusterId(cluster)
        pchannels == GetPchannels(cluster)
        e == clusterFormat(i, cluster, uriSet)
    IN  IF e # NoErr THEN [err |-> e, clusterMap |-> cmap]
        ELSE IF PchannelCountMismatch(i, pchannels, expectedPchannelCount)
             THEN [err |-> Error("pchannels count mismatch", i, clusterID), clusterMap |-> cmap]
        ELSE IF ClusterIDExists(cmap, clusterID)
             THEN [err |-> Error("duplicate clusterID found", i, clusterID), clusterMap |-> cmap]
        ELSE basicLoop(clusters, i + 1,
                       Put(uriSet, GetUri(GetConnectionParam(cluster)), clusterID),
                       IF i = 0 THEN Len(pchannels) ELSE expectedPchannelCount,
                       IF i = 0 THEN clusterID ELSE firstClusterID,
                       Put(cmap, clusterID, cluster))

validateClusterBasic(clusters, cmap) ==
    basicLoop(clusters, 0, EmptyMap, 0, EmptyString, cmap)

----------------------------------------------------------------------------
(* equalIgnoreOrder and validateRelevance *)

\* counts[v]++ for every v of a; a missing key reads 0
RECURSIVE countLoop(_, _, _)
countLoop(a, i, counts) ==
    IF i > Len(a) THEN counts
    ELSE countLoop(a, i + 1,
                   Put(counts, a[i], (IF Has(counts, a[i]) THEN counts[a[i]] ELSE 0) + 1))

\* mutant: counts[v]-- is left out
RECURSIVE consumeLoop_NoDecrement(_, _, _)
consumeLoop_NoDecrement(b, j, counts) ==
    IF j > Len(b) THEN TRUE
    ELSE IF (IF Has(counts, b[j]) THEN counts[b[j]] ELSE 0) = 0 THEN FALSE
    ELSE consumeLoop_NoDecrement(b, j + 1, counts)

RECURSIVE consumeLoop(_, _, _)
consumeLoop(b, j, counts) ==
    IF j > Len(b) THEN TRUE
    ELSE IF (IF Has(counts, b[j]) THEN counts[b[j]] ELSE 0) = 0 THEN FALSE
    ELSE consumeLoop(b, j + 1, Put(counts, b[j], counts[b[j]] - 1))

\* mutant: no length test, b is only consumed from the counts of a
equalIgnoreOrder_NoLength(a, b) == consumeLoop(b, 1, countLoop(a, 1, EmptyMap))

\* mutant: true as soon as every element of a occurs in b
equalIgnoreOrder_FirstWithinSecond(a, b) ==
    \A i \in 1..Len(a) : \E j \in 1..Len(b) : a[i] = b[j]

equalIgnoreOrder(a, b) ==
    IF Len(a) # Len(b) THEN FALSE
    ELSE consumeLoop(b, 1, countLoop(a, 1, EmptyMap))

validateRelevance(cmap, localID, localPChannels) ==
    IF ~Has(cmap, localID)
    THEN Error("current cluster must be included in the clusters list", 0, localID)
    ELSE IF ~equalIgnoreOrder(localPChannels, GetPchannels(cmap[localID]))
    THEN Error("current pchannels do not match", 0, localID)
    ELSE NoErr

----------------------------------------------------------------------------
(* validateTopologyEdgeUniqueness *)

\* fmt.Sprintf("%s->%s", source, target)
edgeKey(source, target) == source \o Arrow \o target

\* if _, exists := edgeSet[edgeKey]; exists
EdgeExists(edgeSet, key) == key \in edgeSet

\* if _, exists := v.clusterMap[id]; !exists
EndpointMissing(cmap, id) == ~Has(cmap, id)

RECURSIVE edgeLoop(_, _, _, _)
edgeLoop(topologies, i, edgeSet, cmap) ==
    IF i >= Len(topologies) THEN NoErr
    ELSE
    LET topology == topologies[i + 1]
        source == GetSourceClusterId(topology)
        target == GetTargetClusterId(topology)
        key == edgeKey(source, target)
    IN  IF topology.isNil THEN Error("topology is nil", i, EmptyString)
        ELSE IF EndpointMissing(cmap, source)
             THEN Error("non-existent source cluster", i, source)
        ELSE IF EndpointMissing(cmap, target)
             THEN Error("non-existent target cluster", i, target)
        ELSE IF EdgeExists(edgeSet, key)
             THEN Error("duplicate topology relationship found", i, key)
        ELSE edgeLoop(topologies, i + 1, edgeSet \cup {key}, cmap)

validateTopologyEdgeUniqueness(topologies, cmap) ==
    IF Len(topologies) = 0 THEN NoErr ELSE edgeLoop(topologies, 0, {}, cmap)

----------------------------------------------------------------------------
(* validateTopologyTypeConstraint *)

\* mutant: outDegree[target]++ instead of outDegree[source]++
outDegreeOf_CountsTargets(topologies, id) ==
    Cardinality({i \in 1..Len(topologies) : GetTargetClusterId(topologies[i]) = id})

\* outDegree[id] after the degree loop (every edge whose source is id)
outDegreeOf(topologies, id) ==
    Cardinality({i \in 1..Len(topologies) : GetSourceClusterId(topologies[i]) = id})

\* inDegree[id] after the degree loop (every edge whose target is id)
inDegreeOf(topologies, id) ==
    Cardinality({i \in 1..Len(topologies) : GetTargetClusterId(topologies[i]) = id})

\* mutant: the in-degree test of the center is left out
IsCenter_OutDegreeOnly(topologies, cmap, clusterID) ==
    outDegreeOf(topologies, clusterID) = Cardinality(DOMAIN cmap) - 1

\* outDegree[clusterID] == clusterCount-1 && inDegree[clusterID] == 0
IsCenter(topologies, cmap, clusterID) ==
    /\ outDegreeOf(topologies, clusterID) = Cardinality(DOMAIN cmap) - 1
    /\ inDegreeOf(topologies, clusterID) = 0

\* mutant: the two degree tests joined by && instead of ||
NotLeaf_And(topologies, clusterID) ==
    inDegreeOf(topologies, clusterID) # 1 /\ outDegreeOf(topologies, clusterID) # 0

\* mutant: < instead of != in both degree tests
NotLeaf_LessThan(topologies, clusterID) ==
    inDegreeOf(topologies, clusterID) < 1 \/ outDegreeOf(topologies, clusterID) < 0

\* inDegree[clusterID] != 1 || outDegree[clusterID] != 0
NotLeaf(topologies, clusterID) ==
    inDegreeOf(topologies, clusterID) # 1 \/ outDegreeOf(topologies, clusterID) # 0

\* mutant: the test for a missing center sits inside the loop, so a cluster
\* that does not qualify ends the search when no center has been met yet
RECURSIVE centerLoop_TestInsideLoop(_, _, _, _)
centerLoop_TestInsideLoop(topologies, cmap, remaining, centerNode) ==
    IF remaining = {} THEN {[err |-> NoErr, centerNode |-> centerNode]}
    ELSE UNION {
        IF IsCenter(topologies, cmap, clusterID)
        THEN IF centerNode # EmptyString
             THEN {[err |-> Error("multiple center nodes found", 0, clusterID),
                    centerNode |-> centerNode]}
             ELSE centerLoop_TestInsideLoop(topologies, cmap, remaining \ {clusterID}, clusterID)
        ELSE IF centerNode = EmptyString
             THEN {[err |-> NoErr, centerNode |-> EmptyString]}
             ELSE centerLoop_TestInsideLoop(topologies, cmap, remaining \ {clusterID}, centerNode)
        : clusterID \in remaining }

\* the center loop "for clusterID := range v.clusterMap": Go leaves the
\* iteration order of a map unspecified, so every order of the clusters not
\* yet visited is possible; the result is the set of possible outcomes
RECURSIVE centerLoop(_, _, _, _)
centerLoop(topologies, cmap, remaining, centerNode) ==
    IF remaining = {} THEN {[err |-> NoErr, centerNode |-> centerNode]}
    ELSE UNION {
        IF IsCenter(topologies, cmap, clusterID)
        THEN IF centerNode # EmptyString
             THEN {[err |-> Error("multiple center nodes found", 0, clusterID),
                    centerNode |-> centerNode]}
             ELSE centerLoop(topologies, cmap, remaining \ {clusterID}, clusterID)
        ELSE centerLoop(topologies, cmap, remaining \ {clusterID}, centerNode)
        : clusterID \in remaining }

\* mutant: the clusters other than the center are not examined
leafLoop_NotExamined(topologies, cmap, centerNode) == {NoErr}

\* the leaf loop returns at the first cluster it meets that is not a leaf
leafLoop(topologies, cmap, centerNode) ==
    LET bad == {clusterID \in DOMAIN cmap :
                    clusterID # centerNode /\ NotLeaf(topologies, clusterID)}
    IN  IF bad = {} THEN {NoErr}
        ELSE {Error("does not follow star topology pattern", 0, clusterID) : clusterID \in bad}

\* mutant: no early return for an empty edge list
validateTopologyTypeConstraint_NoEmptyReturn(topologies, cmap) ==
    UNION {
        IF c.err # NoErr THEN {c.err}
        ELSE IF c.centerNode = EmptyString
             THEN {Error("no center node found", 0, EmptyString)}
        ELSE leafLoop(topologies, cmap, c.centerNode)
        : c \in centerLoop(topologies, cmap, DOMAIN cmap, EmptyString) }

\* mutant: the degree maps are not initialised from the cluster index, so
\* only the clusters that occur in an edge are examined
validateTopologyTypeConstraint_EdgeEndpointsOnly(topologies, cmap) ==
    LET seen == {id \in DOMAIN cmap :
                    outDegreeOf(topologies, id) + inDegreeOf(topologies, id) > 0}
        sub == [id \in seen |-> cmap[id]]
    IN  IF Len(topologies) = 0 THEN {NoErr}
        ELSE UNION {
            IF c.err # NoErr THEN {c.err}
            ELSE IF c.centerNode = EmptyString
                 THEN {Error("no center node found", 0, EmptyString)}
            ELSE leafLoop(topologies, sub, c.centerNode)
            : c \in centerLoop(topologies, sub, seen, EmptyString) }

\* the set of errors validateTopologyTypeConstraint can return (NoErr = nil)
validateTopologyTypeConstraint(topologies, cmap) ==
    IF Len(topologies) = 0 THEN {NoErr}
    ELSE UNION {
        IF c.err # NoErr THEN {c.err}
        ELSE IF c.centerNode = EmptyString
             THEN {Error("no center node found", 0, EmptyString)}
        ELSE leafLoop(topologies, cmap, c.centerNode)
        : c \in centerLoop(topologies, cmap, DOMAIN cmap, EmptyString) }

----------------------------------------------------------------------------
(* validateConfigComparison *)

\* currentClusterMap: nil clusters are skipped, a repeated ID keeps the last
RECURSIVE buildCurrentClusterMap(_, _, _)
buildCurrentClusterMap(currentClusters, i, m) ==
    IF i > Len(currentClusters) THEN m
    ELSE buildCurrentClusterMap(currentClusters, i + 1,
            IF currentClusters[i].isNil THEN m
            ELSE Put(m, GetClusterId(currentClusters[i]), currentClusters[i]))

\* len(incomingPchannels) < len(currentPchannels)
PchannelsDecrease(currentPchannels, incomingPchannels) ==
    Len(incomingPchannels) < Len(currentPchannels)

\* mutant: the slice taken one element short
PrefixChanged_ShortSlice(currentPchannels, incomingPchannels) ==
    currentPchannels # SubSeq(incomingPchannels, 1, Len(currentPchannels) - 1)

\* !slices.Equal(currentPchannels, incomingPchannels[:len(currentPchannels)])
PrefixChanged(currentPchannels, incomingPchannels) ==
    currentPchannels # SubSeq(incomingPchannels, 1, Len(currentPchannels))

\* mutant: >= instead of >
PchannelsIncrease_OrEqual(currentPchannels, incomingPchannels) ==
    Len(incomingPchannels) >= Len(currentPchannels)

\* len(incomingPchannels) > len(currentPchannels)
PchannelsIncrease(currentPchannels, incomingPchannels) ==
    Len(incomingPchannels) > Len(currentPchannels)

\* currentConn.GetUri() != incomingConn.GetUri()
UriChanged(currentConn, incomingConn) == GetUri(currentConn) # GetUri(incomingConn)

\* mutant: the token test compares the URIs again
TokenChanged_ComparesUri(currentConn, incomingConn) ==
    GetUri(currentConn) # GetUri(incomingConn)

\* currentConn.GetToken() != incomingConn.GetToken()
TokenChanged(currentConn, incomingConn) == GetToken(currentConn) # GetToken(incomingConn)

\* mutant: the connection parameters are compared before the pchannels
validateClusterConsistency_ConnectionFirst(current, incoming, flag) ==
    LET currentPchannels == GetPchannels(current)
        incomingPchannels == GetPchannels(incoming)
        currentConn == GetConnectionParam(current)
        incomingConn == GetConnectionParam(incoming)
        id == GetClusterId(current)
        flag2 == IF PchannelsIncrease(currentPchannels, incomingPchannels) THEN TRUE ELSE flag
    IN  IF UriChanged(currentConn, incomingConn)
        THEN [err |-> Error("connection_param.uri cannot be changed", 0, id), flag |-> flag]
        ELSE IF TokenChanged(currentConn, incomingConn)
        THEN [err |-> Error("connection_param.token cannot be changed", 0, id), flag |-> flag]
        ELSE IF PchannelsDecrease(currentPchannels, incomingPchannels)
        THEN [err |-> Error("pchannels cannot decrease", 0, id), flag |-> flag]
        ELSE IF PrefixChanged(currentPchannels, incomingPchannels)
        THEN [err |-> Error("existing pchannels must be preserved", 0, id), flag |-> flag]
        ELSE [err |-> NoErr, flag |-> flag2]

\* validateClusterConsistency: the error and v.isPChannelIncreasing as the
\* call leaves it (flag is its value on entry)
validateClusterConsistency(current, incoming, flag) ==
    LET currentPchannels == GetPchannels(current)
        incomingPchannels == GetPchannels(incoming)
        currentConn == GetConnectionParam(current)
        incomingConn == GetConnectionParam(incoming)
        id == GetClusterId(current)
        flag2 == IF PchannelsIncrease(currentPchannels, incomingPchannels) THEN TRUE ELSE flag
    IN  IF PchannelsDecrease(currentPchannels, incomingPchannels)
        THEN [err |-> Error("pchannels cannot decrease", 0, id), flag |-> flag]
        ELSE IF PrefixChanged(currentPchannels, incomingPchannels)
        THEN [err |-> Error("existing pchannels must be preserved", 0, id), flag |-> flag]
        ELSE IF UriChanged(currentConn, incomingConn)
        THEN [err |-> Error("connection_param.uri cannot be changed", 0, id), flag |-> flag2]
        ELSE IF TokenChanged(currentConn, incomingConn)
        THEN [err |-> Error("connection_param.token cannot be changed", 0, id), flag |-> flag2]
        ELSE [err |-> NoErr, flag |-> flag2]

\* the loop over the incoming clusters of validateConfigComparison
RECURSIVE comparisonLoop(_, _, _, _)
comparisonLoop(incomingClusters, i, currentClusterMap, flag) ==
    IF i >= Len(incomingClusters) THEN [err |-> NoErr, flag |-> flag]
    ELSE
    LET incomingCluster == incomingClusters[i + 1]
        clusterID == GetClusterId(incomingCluster)
    IN  IF Has(currentClusterMap, clusterID)
        THEN LET r == validateClusterConsistency(currentClusterMap[clusterID],
                                                 incomingCluster, flag)
             IN  IF r.err # NoErr THEN [err |-> Error(r.err.kind, i, r.err.id), flag |-> r.flag]
                 ELSE comparisonLoop(incomingClusters, i + 1, currentClusterMap, r.flag)
        ELSE comparisonLoop(incomingClusters, i + 1, currentClusterMap, flag)

\* currentEdges: the keys source+"->"+target of the current topology
currentEdgeKeys(currentTopos) ==
    {edgeKey(GetSourceClusterId(currentTopos[i]), GetTargetClusterId(currentTopos[i]))
        : i \in 1..Len(currentTopos)}

\* len(currentClusterMap) != len(v.clusterMap)
ClusterCountDiffers(currentClusterMap, cmap) ==
    Cardinality(DOMAIN currentClusterMap) # Cardinality(DOMAIN cmap)

\* the current clusters the loop "if _, ok := v.clusterMap[clusterID]; !ok" can stop at
MissingClusters(currentClusterMap, cmap) ==
    {clusterID \in DOMAIN currentClusterMap : ~Has(cmap, clusterID)}

\* len(currentTopos) != len(incomingTopos)
EdgeCountDiffers(currentTopos, incomingTopos) == Len(currentTopos) # Len(incomingTopos)

\* mutant: the key of an incoming edge is built target first
NewEdges_ReversedKey(currentTopos, incomingTopos) ==
    {i \in 0..(Len(incomingTopos) - 1) :
        edgeKey(GetTargetClusterId(incomingTopos[i + 1]),
                GetSourceClusterId(incomingTopos[i + 1])) \notin currentEdgeKeys(currentTopos)}

\* the incoming edges (Go index) the loop "if _, ok := currentEdges[edge]; !ok" stops at
NewEdges(currentTopos, incomingTopos) ==
    {i \in 0..(Len(incomingTopos) - 1) :
        edgeKey(GetSourceClusterId(incomingTopos[i + 1]),
                GetTargetClusterId(incomingTopos[i + 1])) \notin currentEdgeKeys(currentTopos)}

Min(S) == CHOOSE x \in S : \A y \in S : x <= y

\* the set of errors validatePChannelIncreasingConstraints can return: the
\* cluster named as missing depends on the iteration order of currentClusterMap
validatePChannelIncreasingConstraints(currentClusterMap, cmap, currentTopos, incomingTopos) ==
    IF ClusterCountDiffers(currentClusterMap, cmap)
    THEN {Error("cluster set must remain identical", 0, EmptyString)}
    ELSE IF MissingClusters(currentClusterMap, cmap) # {}
    THEN {Error("cluster set must remain identical", 0, clusterID)
            : clusterID \in MissingClusters(currentClusterMap, cmap)}
    ELSE IF EdgeCountDiffers(currentTopos, incomingTopos)
    THEN {Error("topology must remain identical", 0, EmptyString)}
    ELSE IF NewEdges(currentTopos, incomingTopos) # {}
    THEN {Error("topology must remain identical", Min(NewEdges(currentTopos, incomingTopos)),
                EmptyString)}
    ELSE {NoErr}

\* mutant: the growth constraints are enforced whether or not the flag is set
validateConfigComparison_AlwaysConstraints(incoming, current, cmap, flag) ==
    LET currentClusterMap == buildCurrentClusterMap(GetClusters(current), 1, EmptyMap)
        r == comparisonLoop(GetClusters(incoming), 0, currentClusterMap, flag)
    IN  IF r.err # NoErr THEN {r}
        ELSE {[err |-> e, flag |-> r.flag]
                : e \in validatePChannelIncreasingConstraints(currentClusterMap, cmap,
                            GetCrossClusterTopology(current),
                            GetCrossClusterTopology(incoming))}

\* the set of results validateConfigComparison can return, each with
\* v.isPChannelIncreasing as the call leaves it
validateConfigComparison(incoming, current, cmap, flag) ==
    LET currentClusterMap == buildCurrentClusterMap(GetClusters(current), 1, EmptyMap)
        r == comparisonLoop(GetClusters(incoming), 0, currentClusterMap, flag)
    IN  IF r.err # NoErr THEN {r}
        ELSE IF r.flag
        THEN {[err |-> e, flag |-> r.flag]
                : e \in validatePChannelIncreasingConstraints(currentClusterMap, cmap,
                            GetCrossClusterTopology(current),
                            GetCrossClusterTopology(incoming))}
        ELSE {r}

----------------------------------------------------------------------------
(* The inputs a validator is constructed with.  Every family is a set of   *)
(* records [incoming, current, localID, localPChannels]; together they     *)
(* cover malformed clusters, local mismatches, arbitrary edge lists over   *)
(* well-formed clusters, and incoming/current pairs.                       *)

IdPool == <<IdA, IdAA, IdB, IdC, IdD>>
UriPool == <<Uri1, Uri2, Uri3, Uri4, Uri5>>
ChPool == <<ChP, ChQ, ChR, ChS>>

Input(incoming, current, localID, localPChannels) ==
    [incoming |-> incoming, current |-> current,
     localID |-> localID, localPChannels |-> localPChannels]

\* the first L channels of the pool
Canon(L) == SubSeq(ChPool, 1, L)

\* all sequences over S of length at most n
SeqsUpTo(S, n) == UNION {[1..k -> S] : k \in 0..n}

\* the elements of seq at the indices in S, in increasing order
RECURSIVE Pick(_, _)
Pick(seq, S) ==
    IF S = {} THEN <<>>
    ELSE LET m == Min(S) IN <<seq[m]>> \o Pick(seq, S \ {m})

\* the subsets of S with at most n elements
RECURSIVE SubsetsUpTo(_, _)
SubsetsUpTo(S, n) ==
    IF n = 0 THEN {{}}
    ELSE LET P == SubsetsUpTo(S, n - 1) IN P \cup {T \cup {x} : T \in P, x \in S}

GoodCluster(k, L) == MilvusCluster(IdPool[k], ConnectionParam(UriPool[k], Tok1), Canon(L))
GoodClusters(n, L) == [k \in 1..n |-> GoodCluster(k, L)]

\* the star whose center is the c-th of n clusters
StarEdges(n, c) ==
    Pick([k \in 1..n |-> CrossClusterTopology(IdPool[c], IdPool[k])], (1..n) \ {c})

\* every edge of the star reversed
ReversedStarEdges(n, c) ==
    Pick([k \in 1..n |-> CrossClusterTopology(IdPool[k], IdPool[c])], (1..n) \ {c})

(* Family B: malformed clusters *)

BasicIds == {IdA, IdC, EmptyString, IdWs}
BasicConns ==
    {NilConn} \cup
    {ConnectionParam(u, Tok1) :
        u \in {Uri1, Uri5, EmptyString, UriNoScheme, UriDigitFirst, UriPath}}
BasicPchannels ==
    SeqsUpTo({ChP, EmptyString}, MaxPChannels) \cup {Canon(L) : L \in 1..MaxPChannels}
BasicClusters ==
    {NilCluster} \cup
    {MilvusCluster(id, conn, pch) :
        id \in BasicIds, conn \in BasicConns, pch \in BasicPchannels}

\* k well-formed clusters of L channels followed by one arbitrary cluster
OneArbitraryOf(k, L) ==
    {Input(ReplicateConfiguration(Append(GoodClusters(k, L), c), <<>>),
           NilConfig, id, Canon(L)) :
        c \in BasicClusters, id \in {IdA, IdC}}

InputsOneArbitrary ==
    UNION {OneArbitraryOf(k, L) : k \in 0..(MaxClusters - 1), L \in 1..MaxPChannels}

\* clusters with a single defect each, or none
DefectClusters ==
    {NilCluster,
     GoodCluster(1, 1), GoodCluster(2, 1), GoodCluster(2, 2),
     MilvusCluster(EmptyString, ConnectionParam(Uri1, Tok1), Canon(1)),
     MilvusCluster(IdWs, ConnectionParam(Uri1, Tok1), Canon(1)),
     MilvusCluster(IdA, NilConn, Canon(1)),
     MilvusCluster(IdA, ConnectionParam(EmptyString, Tok1), Canon(1)),
     MilvusCluster(IdA, ConnectionParam(UriNoScheme, Tok1), Canon(1)),
     MilvusCluster(IdA, ConnectionParam(Uri1, Tok1), <<>>),
     MilvusCluster(IdA, ConnectionParam(Uri1, Tok1), <<EmptyString>>),
     MilvusCluster(IdA, ConnectionParam(Uri1, Tok1), <<ChP, ChP>>),
     MilvusCluster(IdA, ConnectionParam(Uri2, Tok1), Canon(1)),
     MilvusCluster(IdAA, ConnectionParam(Uri1, Tok1), Canon(1))}

\* two such clusters, and the malformed shapes of the whole configuration
InputsTwoDefects ==
    {Input(ReplicateConfiguration(<<x, y>>, <<>>), NilConfig, IdA, Canon(1)) :
        x \in DefectClusters, y \in DefectClusters}
    \cup {Input(NilConfig, cur, id, Canon(1)) :
            cur \in {NilConfig, ReplicateConfiguration(GoodClusters(1, 1), <<>>)},
            id \in {IdA, IdZ, EmptyString}}
    \cup {Input(ReplicateConfiguration(<<>>, e), cur, id, Canon(1)) :
            e \in {<<>>, <<CrossClusterTopology(IdA, IdA)>>, <<NilTopology>>},
            cur \in {NilConfig, ReplicateConfiguration(GoodClusters(1, 1), <<>>)},
            id \in {IdA, IdZ, EmptyString}}

(* Family R: the local cluster and its channels *)

Reverse(seq) == [i \in 1..Len(seq) |-> seq[Len(seq) + 1 - i]]

\* n clusters of L channels in a star, the first declaring its channels in
\* either order, against every local ID and local channel list
RelevanceOf(n, L) ==
    {Input(ReplicateConfiguration(
               [k \in 1..n |-> MilvusCluster(IdPool[k], ConnectionParam(UriPool[k], Tok1),
                                             IF k = 1 THEN p ELSE Canon(L))],
               StarEdges(n, 1)),
           NilConfig, id, lp) :
        p \in {Canon(L), Reverse(Canon(L))},
        id \in {IdA, IdAA, IdZ},
        lp \in SeqsUpTo({ChPool[k] : k \in 1..(L + 1)}, L) \cup {Canon(L + 1)}}

InputsRelevance ==
    UNION {RelevanceOf(n, L) : n \in 1..MaxClusters, L \in 1..MaxPChannels}

(* Family T: arbitrary edge lists over well-formed clusters *)

\* the candidate edges over the first n clusters: every ordered pair of them
\* (self-edges included), two edges with an undeclared endpoint, a nil edge
EdgeCandidates(n) ==
    [k \in 1..(n * n + 3) |->
        IF k <= n * n
        THEN CrossClusterTopology(IdPool[((k - 1) \div n) + 1], IdPool[((k - 1) % n) + 1])
        ELSE IF k = n * n + 1 THEN CrossClusterTopology(IdA, IdZ)
        ELSE IF k = n * n + 2 THEN CrossClusterTopology(IdZ, IdA)
        ELSE NilTopology]

\* the edge lists over the first n clusters: at most MaxEdges candidates in
\* a fixed order, the first one possibly repeated at the end
EdgeLists(n) ==
    {Pick(EdgeCandidates(n), S) : S \in SubsetsUpTo(1..(n * n + 3), MaxEdges)}
    \cup {Append(Pick(EdgeCandidates(n), S), EdgeCandidates(n)[Min(S)]) :
            S \in SubsetsUpTo(1..(n * n + 3), MaxEdges - 1) \ {{}}}

\* cfg with the token of its first cluster changed
WithOtherToken(cfg) ==
    ReplicateConfiguration(
        [k \in 1..Len(cfg.clusters) |->
            IF k = 1
            THEN MilvusCluster(cfg.clusters[k].cluster_id,
                               ConnectionParam(cfg.clusters[k].connection_param.uri, Tok2),
                               cfg.clusters[k].pchannels)
            ELSE cfg.clusters[k]],
        cfg.cross_cluster_topology)

\* cfg as a first configuration and as a replacement of itself; short edge
\* lists also as a replacement of itself with another token, the shortest
\* also with an undeclared local cluster
TopologyInputsOf(cfg) ==
    {Input(cfg, NilConfig, IdA, Canon(1)),
     Input(cfg, cfg, IdA, Canon(1))}
    \cup (IF Len(cfg.cross_cluster_topology) <= 2
          THEN {Input(cfg, WithOtherToken(cfg), IdA, Canon(1))} ELSE {})
    \cup (IF Len(cfg.cross_cluster_topology) <= 1
          THEN {Input(cfg, NilConfig, IdZ, Canon(1))} ELSE {})

(* Family X: an incoming configuration and the current one it replaces *)

\* the channel lists a current cluster may hold against an incoming Canon(L):
\* the same list, one channel fewer, one more, the first two swapped (or
\* another channel), a shorter list that is no prefix
CurrentChannelLists(L) ==
    {Canon(L), Canon(L + 1),
     IF L >= 2 THEN Canon(L - 1) ELSE Canon(L),
     IF L >= 2 THEN <<ChPool[2], ChPool[1]>> \o SubSeq(ChPool, 3, L) ELSE <<ChPool[2]>>,
     IF L >= 2 THEN SubSeq(ChPool, 2, L) ELSE <<ChPool[2], ChPool[1]>>}

\* the connection parameters a current cluster may hold against the k-th
\* incoming cluster: the same, another URI, another token, none
CurrentConns(k) ==
    {ConnectionParam(UriPool[k], Tok1), ConnectionParam(Uri5, Tok1),
     ConnectionParam(UriPool[k], Tok2), NilConn}

\* the current counterparts of the k-th incoming cluster: absent (<<>>), a
\* nil entry, or a cluster of the same ID.  The current configuration is an
\* installed one, so its cluster IDs are distinct.
CurrentVariants(k, L) ==
    {<<>>, <<NilCluster>>} \cup
    {<<MilvusCluster(IdPool[k], conn, pch)>> :
        conn \in CurrentConns(k), pch \in CurrentChannelLists(L)}

\* two incoming clusters of L channels, each against any current counterpart
PairsOf(L) ==
    {Input(ReplicateConfiguration(GoodClusters(2, L), e),
           ReplicateConfiguration(c1 \o c2, e), IdA, Canon(L)) :
        e \in {<<>>, StarEdges(2, 1)},
        c1 \in CurrentVariants(1, L), c2 \in CurrentVariants(2, L)}

InputsPairs == UNION {PairsOf(L) : L \in 1..MaxPChannels}

\* the current counterparts that keep everything or only lack one channel
\* (a current cluster has at least one channel)
GrowthVariants(k, L) ==
    {<<>>, <<GoodCluster(k, L)>>} \cup (IF L >= 2 THEN {<<GoodCluster(k, L - 1)>>} ELSE {})

\* all ways to pick one element of each set of a sequence of sets of
\* sequences, concatenated
RECURSIVE Concats(_)
Concats(sets) ==
    IF sets = <<>> THEN {<<>>}
    ELSE {h \o t : h \in Head(sets), t \in Concats(Tail(sets))}

\* the current edge lists tried against an incoming one over n clusters
CurrentEdgeLists(n) ==
    {<<>>, StarEdges(n, 1), ReversedStarEdges(n, 1), StarEdges(n, 2),
     Tail(StarEdges(n, 1)), <<NilTopology>>,
     Append(Tail(StarEdges(n, 1)), CrossClusterTopology(IdPool[2], IdPool[1]))}

\* n incoming clusters against a current configuration in which each is
\* kept, grown from or absent, with at most one further cluster, under
\* every pair of edge lists above; for two clusters also with local
\* channels that do not match
GrowthOf(n, L) ==
    {Input(ReplicateConfiguration(GoodClusters(n, L), ie),
           ReplicateConfiguration(cs \o extra, ce), IdA, lp) :
        cs \in Concats([k \in 1..n |-> GrowthVariants(k, L)]),
        extra \in {<<>>, <<GoodCluster(n + 1, L)>>},
        ie \in {<<>>, StarEdges(n, 1), ReversedStarEdges(n, 1)},
        ce \in CurrentEdgeLists(n),
        lp \in IF n = 2 THEN {Canon(L), Canon(L - 1)} ELSE {Canon(L)}}

InputsGrowth ==
    UNION {GrowthOf(2, L) \cup GrowthOf(MaxClusters, L) : L \in 1..MaxPChannels}

(* Family G: every cluster grown by the same number of channels *)

\* the k-th cluster with L0 channels and g more appended: the next ones of
\* the pool, or (alt) the last ones of the pool
GrownCluster(k, L0, g, alt) ==
    MilvusCluster(IdPool[k], ConnectionParam(UriPool[k], Tok1),
                  IF alt /\ k > 1
                  THEN Canon(L0) \o SubSeq(Reverse(ChPool), 1, g)
                  ELSE Canon(L0 + g))

\* a star of n clusters of L0 channels replaced by the same star with g
\* channels more per cluster, the clusters and the edges listed in the same
\* or in the opposite order, the local channels in either order
GrowthAcceptedOf(n, L0, g) ==
    {Input(ReplicateConfiguration(
               IF rc THEN Reverse([k \in 1..n |-> GrownCluster(k, L0, g, alt)])
               ELSE [k \in 1..n |-> GrownCluster(k, L0, g, alt)],
               IF re THEN Reverse(StarEdges(n, c)) ELSE StarEdges(n, c)),
           ReplicateConfiguration(GoodClusters(n, L0), StarEdges(n, c)),
           IdA,
           IF rl THEN Reverse(Canon(L0 + g)) ELSE Canon(L0 + g)) :
        c \in 1..n, alt \in BOOLEAN, rc \in BOOLEAN, re \in BOOLEAN, rl \in BOOLEAN}

InputsGrowthAccepted ==
    UNION {GrowthAcceptedOf(n, L0, MaxPChannels - L0) \cup GrowthAcceptedOf(n, L0, 1) :
            n \in 1..MaxClusters, L0 \in 1..(MaxPChannels - 1)}

\* NewReplicateConfigValidator(in.incoming, in.current, in.localID, in.localPChannels)
NewReplicateConfigValidator(in) ==
    /\ incomingConfig = in.incoming
    /\ currentConfig = in.current
    /\ currentClusterID = in.localID
    /\ currentPChannels = in.localPChannels

Init ==
    /\ \/ \E in \in InputsOneArbitrary : NewReplicateConfigValidator(in)
       \/ \E in \in InputsTwoDefects : NewReplicateConfigValidator(in)
       \/ \E in \in InputsRelevance : NewReplicateConfigValidator(in)
       \/ \E n \in 1..MaxClusters : \E e \in EdgeLists(n) :
            \E in \in TopologyInputsOf(ReplicateConfiguration(GoodClusters(n, 1), e)) :
                NewReplicateConfigValidator(in)
       \/ \E in \in InputsPairs : NewReplicateConfigValidator(in)
       \/ \E in \in InputsGrowth : NewReplicateConfigValidator(in)
       \/ \E in \in InputsGrowthAccepted : NewReplicateConfigValidator(in)
    /\ clusterMap = EmptyMap
    /\ isPChannelIncreasing = FALSE
    /\ pc = "new"
    /\ err = NoErr
    /\ trace = <<>>
    /\ calls = 0
    /\ firstErr = Pending
    /\ argA = <<>> /\ argB = <<>> /\ argTopologies = <<>> /\ result = FALSE

----------------------------------------------------------------------------
(* The validator as a state machine: one Validate() call runs its phases   *)
(* in the order of the code, each phase one step                           *)

\* Validate() returns e
Return(e) ==
    /\ pc' = "done"
    /\ err' = e
    /\ firstErr' = IF calls = 1 THEN e ELSE firstErr

\* Validate() goes on with the next phase
Goto(phase) ==
    /\ pc' = phase
    /\ trace' = Append(trace, phase)
    /\ UNCHANGED <<err, firstErr>>

\* v.incomingConfig == nil
ConfigIsNil(cfg) == cfg.isNil

\* mutant: the length test is left out
ClustersEmpty_Never(clusters) == FALSE

\* len(clusters) == 0
ClustersEmpty(clusters) == Len(clusters) = 0

\* Validate(): the call and its two pre-checks
Validate ==
    /\ pc \in {"new", "done"}
    /\ calls < MaxCalls
    /\ calls' = calls + 1
    /\ IF ConfigIsNil(incomingConfig)
       THEN /\ pc' = "done"
            /\ err' = Error("config cannot be nil", 0, EmptyString)
            /\ trace' = <<>>
       ELSE IF ClustersEmpty(GetClusters(incomingConfig))
       THEN /\ pc' = "done"
            /\ err' = Error("clusters list cannot be empty", 0, EmptyString)
            /\ trace' = <<>>
       ELSE /\ pc' = "validateClusterBasic"
            /\ err' = NoErr
            /\ trace' = <<"validateClusterBasic">>
    /\ firstErr' = IF calls = 0 /\ pc' = "done" THEN err' ELSE firstErr
    /\ UNCHANGED <<inputs, clusterMap, isPChannelIncreasing, direct>>

ValidateClusterBasic ==
    /\ pc = "validateClusterBasic"
    /\ LET r == validateClusterBasic(GetClusters(incomingConfig), clusterMap)
       IN  /\ clusterMap' = r.clusterMap
           /\ IF r.err # NoErr
              THEN Return(r.err) /\ UNCHANGED trace
              ELSE Goto("validateRelevance")
    /\ UNCHANGED <<inputs, isPChannelIncreasing, calls, direct>>

\* mutant: the error of validateRelevance is dropped
ValidateRelevance_ErrorDropped ==
    /\ pc = "validateRelevance"
    /\ Goto("validateTopologyEdgeUniqueness")
    /\ UNCHANGED <<inputs, clusterMap, isPChannelIncreasing, calls, direct>>

\* mutant: equalIgnoreOrder reorders the caller's slice while it compares
ValidateRelevance_ReordersInput ==
    /\ pc = "validateRelevance"
    /\ LET e == validateRelevance(clusterMap, currentClusterID, currentPChannels)
       IN  IF e # NoErr
           THEN Return(e) /\ UNCHANGED trace
           ELSE Goto("validateTopologyEdgeUniqueness")
    /\ currentPChannels' = Reverse(currentPChannels)
    /\ UNCHANGED <<incomingConfig, currentConfig, currentClusterID,
                   clusterMap, isPChannelIncreasing, calls, direct>>

ValidateRelevance ==
    /\ pc = "validateRelevance"
    /\ LET e == validateRelevance(clusterMap, currentClusterID, currentPChannels)
       IN  IF e # NoErr
           THEN Return(e) /\ UNCHANGED trace
           ELSE Goto("validateTopologyEdgeUniqueness")
    /\ UNCHANGED <<inputs, clusterMap, isPChannelIncreasing, calls, direct>>

ValidateTopologyEdgeUniqueness ==
    /\ pc = "validateTopologyEdgeUniqueness"
    /\ LET e == validateTopologyEdgeUniqueness(GetCrossClusterTopology(incomingConfig),
                                               clusterMap)
       IN  IF e # NoErr
           THEN Return(e) /\ UNCHANGED trace
           ELSE Goto("validateTopologyTypeConstraint")
    /\ UNCHANGED <<inputs, clusterMap, isPChannelIncreasing, calls, direct>>

ValidateTopologyTypeConstraint ==
    /\ pc = "validateTopologyTypeConstraint"
    /\ \E e \in validateTopologyTypeConstraint(GetCrossClusterTopology(incomingConfig),
                                               clusterMap) :
           IF e # NoErr
           THEN Return(e) /\ UNCHANGED trace
           ELSE IF ~currentConfig.isNil
           THEN Goto("validateConfigComparison")
           ELSE Return(NoErr) /\ UNCHANGED trace
    /\ UNCHANGED <<inputs, clusterMap, isPChannelIncreasing, calls, direct>>

ValidateConfigComparison ==
    /\ pc = "validateConfigComparison"
    /\ \E r \in validateConfigComparison(incomingConfig, currentConfig, clusterMap,
                                         isPChannelIncreasing) :
           /\ isPChannelIncreasing' = r.flag
           /\ Return(r.err)
    /\ UNCHANGED <<inputs, clusterMap, trace, calls, direct>>

\* Validate() on a fresh validator as a function of the constructor's
\* arguments: the set of errors it can return (NoErr = nil)
ValidateOutcomes(incoming, current, localID, localPChannels) ==
    IF ConfigIsNil(incoming) THEN {Error("config cannot be nil", 0, EmptyString)}
    ELSE IF ClustersEmpty(GetClusters(incoming))
    THEN {Error("clusters list cannot be empty", 0, EmptyString)}
    ELSE
    LET b == validateClusterBasic(GetClusters(incoming), EmptyMap)
        topologies == GetCrossClusterTopology(incoming)
    IN  IF b.err # NoErr THEN {b.err}
        ELSE IF validateRelevance(b.clusterMap, localID, localPChannels) # NoErr
        THEN {validateRelevance(b.clusterMap, localID, localPChannels)}
        ELSE IF validateTopologyEdgeUniqueness(topologies, b.clusterMap) # NoErr
        THEN {validateTopologyEdgeUniqueness(topologies, b.clusterMap)}
        ELSE UNION {
            IF e # NoErr THEN {e}
            ELSE IF ~current.isNil
            THEN {r.err : r \in validateConfigComparison(incoming, current,
                                                         b.clusterMap, FALSE)}
            ELSE {NoErr}
            : e \in validateTopologyTypeConstraint(topologies, b.clusterMap) }

Next ==
    \/ Validate
    \/ ValidateClusterBasic
    \/ ValidateRelevance
    \/ ValidateTopologyEdgeUniqueness
    \/ ValidateTopologyTypeConstraint
    \/ ValidateConfigComparison

Spec == Init /\ [][Next]_vars

----------------------------------------------------------------------------
(* Vocabulary of the properties, stated on the inputs and not through the  *)
(* validator's operators                                                   *)

Range(seq) == {seq[i] : i \in 1..Len(seq)}

\* the first Validate() call on the instance has returned
Returned == pc = "done" /\ calls = 1
Succeeded == Returned /\ err = NoErr
Failed == Returned /\ err # NoErr

IncomingClusters == GetClusters(incomingConfig)
IncomingEdges == GetCrossClusterTopology(incomingConfig)
CurrentClusters == GetClusters(currentConfig)
CurrentEdges == GetCrossClusterTopology(currentConfig)

\* the cluster IDs a configuration declares
ClusterIdsOf(cfg) == {GetClusterId(c) : c \in {x \in Range(GetClusters(cfg)) : ~x.isNil}}

\* the ordered pairs (source, target) of a configuration's edges
EdgePairsOf(cfg) ==
    {<<GetSourceClusterId(t), GetTargetClusterId(t)>> : t \in Range(GetCrossClusterTopology(cfg))}

\* the clusters of cfg declared under id
ClustersWithId(cfg, id) ==
    {c \in Range(GetClusters(cfg)) : ~c.isNil /\ GetClusterId(c) = id}

SharedIds == ClusterIdsOf(incomingConfig) \cap ClusterIdsOf(currentConfig)

\* some cluster declared in both configurations has more channels in incoming
GrowthOfSharedCluster ==
    \E id \in SharedIds :
        \E i \in ClustersWithId(incomingConfig, id), c \in ClustersWithId(currentConfig, id) :
            Len(GetPchannels(i)) > Len(GetPchannels(c))

\* number of occurrences of x in seq
Occurrences(seq, x) == Cardinality({i \in 1..Len(seq) : seq[i] = x})

\* a and b are equal as multisets
SameMultiset(a, b) ==
    /\ Len(a) = Len(b)
    /\ \A x \in Range(a) \cup Range(b) : Occurrences(a, x) = Occurrences(b, x)

\* number of incoming edges whose source (target) is id
SourceCount(id) ==
    Cardinality({i \in 1..Len(IncomingEdges) : GetSourceClusterId(IncomingEdges[i]) = id})
TargetCount(id) ==
    Cardinality({i \in 1..Len(IncomingEdges) : GetTargetClusterId(IncomingEdges[i]) = id})

\* the clusters that are the source of every incoming edge and the target of none
StarCenters ==
    {C \in ClusterIdsOf(incomingConfig) :
        /\ \A i \in 1..Len(IncomingEdges) : GetSourceClusterId(IncomingEdges[i]) = C
        /\ \A i \in 1..Len(IncomingEdges) : GetTargetClusterId(IncomingEdges[i]) # C}

----------------------------------------------------------------------------
(* C1  Star uniqueness.  Whenever Validate succeeds on an incoming         *)
(* configuration with a non-empty edge list, exactly one declared cluster  *)
(* is the source of every edge and the target of none, and every other     *)
(* declared cluster is the target of exactly one edge and the source of    *)
(* none.                                                                   *)
C1_StarOnSuccess ==
    (Succeeded /\ Len(IncomingEdges) > 0) =>
        /\ Cardinality(StarCenters) = 1
        /\ \A C \in StarCenters : \A D \in ClusterIdsOf(incomingConfig) \ {C} :
                TargetCount(D) = 1 /\ SourceCount(D) = 0

\* a star of three clusters has been accepted
C1_Witness ==
    /\ Succeeded
    /\ Len(IncomingEdges) = 2
    /\ Cardinality(ClusterIdsOf(incomingConfig)) = 3

----------------------------------------------------------------------------
(* C2  Growth-mode exclusion.  If some cluster ID present in both          *)
(* configurations has strictly more pchannels in incoming than in current, *)
(* and the set of cluster IDs or the set of (source, target) edges of      *)
(* incoming differs from that of current, then Validate returns an error.  *)
C2_GrowthExclusion ==
    (/\ Returned
     /\ ~incomingConfig.isNil /\ ~currentConfig.isNil
     /\ GrowthOfSharedCluster
     /\ \/ ClusterIdsOf(incomingConfig) # ClusterIdsOf(currentConfig)
        \/ EdgePairsOf(incomingConfig) # EdgePairsOf(currentConfig))
    => err # NoErr

----------------------------------------------------------------------------
----------------------------------------------------------------------------
(* C4  After a successful Validate on a fresh validator,                   *)
(* IsPChannelIncreasing() is true if and only if a current configuration   *)
(* was supplied and at least one cluster ID present in both has a strictly *)
(* longer pchannel list in incoming than in current.                       *)
C4_GrowthFlagExact ==
    Succeeded =>
        (isPChannelIncreasing <=> (~currentConfig.isNil /\ GrowthOfSharedCluster))

\* a growth has been accepted and flagged
C4_Witness == Succeeded /\ isPChannelIncreasing /\ GrowthOfSharedCluster

----------------------------------------------------------------------------
(* C5  Idempotence of transition.  Phases one to four do not read the      *)
(* current configuration, so Validate(x, no current) succeeds exactly when *)
(* Validate(x, current = x) reaches the transition check; the claim is     *)
(* that in a call with current = incoming that reaches the transition      *)
(* check, Validate succeeds and leaves growthDetected = false.             *)
C5_Idempotence ==
    (/\ Returned
     /\ currentConfig = incomingConfig
     /\ "validateConfigComparison" \in Range(trace))
    => (err = NoErr /\ ~isPChannelIncreasing)

\* a star with edges has been accepted as a transition from itself
C5_Witness ==
    /\ Succeeded
    /\ currentConfig = incomingConfig
    /\ Len(IncomingEdges) >= 2

----------------------------------------------------------------------------
(* C6  Slot uniformity.  Whenever Validate succeeds, every incoming        *)
(* cluster declares as many pchannels as the first one, at least one, and  *)
(* within a cluster every pchannel is non-empty and none appears twice.    *)
C6_SlotUniformity ==
    Succeeded =>
        \A i \in 1..Len(IncomingClusters) :
            LET p == GetPchannels(IncomingClusters[i])
            IN  /\ Len(p) = Len(GetPchannels(IncomingClusters[1]))
                /\ Len(p) >= 1
                /\ \A j \in 1..Len(p) : p[j] # EmptyString
                /\ \A j, k \in 1..Len(p) : p[j] = p[k] => j = k

\* several clusters of two channels each have been accepted
C6_Witness ==
    /\ Succeeded
    /\ Len(IncomingClusters) >= 2
    /\ Len(GetPchannels(IncomingClusters[1])) = 2

----------------------------------------------------------------------------
(* C7  Whenever Validate succeeds, the cluster IDs of the incoming         *)
(* configuration are pairwise distinct and so are the URIs of its          *)
(* clusters; a cluster repeating an earlier ID or URI makes Validate fail. *)
C7_UniqueIdsAndUris ==
    Succeeded =>
        \A i, j \in 1..Len(IncomingClusters) :
            i # j =>
                /\ GetClusterId(IncomingClusters[i]) # GetClusterId(IncomingClusters[j])
                /\ GetUri(GetConnectionParam(IncomingClusters[i]))
                        # GetUri(GetConnectionParam(IncomingClusters[j]))

\* three clusters with distinct IDs and URIs have been accepted
C7_Witness ==
    /\ Succeeded
    /\ Len(IncomingClusters) = 3
    /\ Cardinality({GetUri(GetConnectionParam(c)) : c \in Range(IncomingClusters)}) = 3

----------------------------------------------------------------------------
(* C8  Relevance.  Whenever Validate succeeds, localClusterID is the ID of *)
(* an incoming cluster and that cluster's pchannel list is a permutation   *)
(* of localPChannels.                                                      *)
C8_Relevance ==
    Succeeded =>
        /\ currentClusterID \in ClusterIdsOf(incomingConfig)
        /\ \A c \in ClustersWithId(incomingConfig, currentClusterID) :
                SameMultiset(GetPchannels(c), currentPChannels)

\* accepted with the local channels in another order than declared
C8_Witness ==
    /\ Succeeded
    /\ \E c \in ClustersWithId(incomingConfig, currentClusterID) :
            GetPchannels(c) # currentPChannels

----------------------------------------------------------------------------
(* C9  Whenever Validate succeeds, every incoming edge is non-nil, its     *)
(* source and target are declared clusters and no ordered pair (source,    *)
(* target) occurs twice; the pair is ordered, so the edge-uniqueness phase *)
(* reports a duplicate only for an edge whose ordered pair repeats that of *)
(* an earlier edge (A->B and B->A are not duplicates of each other).       *)
C9_EdgesUniqueOrderedPairs ==
    /\ Succeeded =>
        /\ \A i \in 1..Len(IncomingEdges) :
            /\ ~IncomingEdges[i].isNil
            /\ GetSourceClusterId(IncomingEdges[i]) \in ClusterIdsOf(incomingConfig)
            /\ GetTargetClusterId(IncomingEdges[i]) \in ClusterIdsOf(incomingConfig)
        /\ \A i, j \in 1..Len(IncomingEdges) :
            i # j =>
                <<GetSourceClusterId(IncomingEdges[i]), GetTargetClusterId(IncomingEdges[i])>>
                # <<GetSourceClusterId(IncomingEdges[j]), GetTargetClusterId(IncomingEdges[j])>>
    /\ (Failed /\ err.kind = "duplicate topology relationship found") =>
        \E j \in 1..err.idx :
            /\ GetSourceClusterId(IncomingEdges[j]) = GetSourceClusterId(IncomingEdges[err.idx + 1])
            /\ GetTargetClusterId(IncomingEdges[j]) = GetTargetClusterId(IncomingEdges[err.idx + 1])

----------------------------------------------------------------------------
(* C10  Fail-fast phase ordering.  A phase is violated by an input when    *)
(* its check, applied on its own to the input and the index of all         *)
(* incoming clusters, returns an error.  The error Validate returns is one *)
(* of the earliest violated phase in the order cluster-basic, relevance,   *)
(* edge-uniqueness, star-shape, transition; the phases entered are exactly *)
(* those up to it, and Validate succeeds when no phase is violated.        *)

PhaseOrder ==
    <<"validateClusterBasic", "validateRelevance", "validateTopologyEdgeUniqueness",
      "validateTopologyTypeConstraint", "validateConfigComparison">>

PhaseKinds ==
    <<{"cluster is nil", "empty clusterID", "clusterID containing whitespace characters",
       "nil connection_param", "empty URI", "invalid URI format", "duplicate URI found",
       "empty pchannels", "empty pchannel", "duplicate pchannel",
       "pchannels count mismatch", "duplicate clusterID found"},
      {"current cluster must be included in the clusters list",
       "current pchannels do not match"},
      {"topology is nil", "non-existent source cluster", "non-existent target cluster",
       "duplicate topology relationship found"},
      {"multiple center nodes found", "no center node found",
       "does not follow star topology pattern"},
      {"pchannels cannot decrease", "existing pchannels must be preserved",
       "connection_param.uri cannot be changed", "connection_param.token cannot be changed",
       "cluster set must remain identical", "topology must remain identical"}>>

\* the index of all incoming clusters
FullIndex ==
    [id \in ClusterIdsOf(incomingConfig) |->
        CHOOSE c \in ClustersWithId(incomingConfig, id) : TRUE]

BasicViolated == validateClusterBasic(IncomingClusters, EmptyMap).err # NoErr
RelevanceViolated(index) ==
    validateRelevance(index, currentClusterID, currentPChannels) # NoErr
EdgesViolated(index) == validateTopologyEdgeUniqueness(IncomingEdges, index) # NoErr
ShapeViolated(index) == NoErr \notin validateTopologyTypeConstraint(IncomingEdges, index)
TransitionViolated(index) ==
    /\ ~currentConfig.isNil
    /\ \A r \in validateConfigComparison(incomingConfig, currentConfig, index, FALSE) :
            r.err # NoErr

\* the earliest violated phase, 0 when there is none
EarliestViolated(index) ==
    IF BasicViolated THEN 1
    ELSE IF RelevanceViolated(index) THEN 2
    ELSE IF EdgesViolated(index) THEN 3
    ELSE IF ShapeViolated(index) THEN 4
    ELSE IF TransitionViolated(index) THEN 5
    ELSE 0

C10_FailFastOrder ==
    (Returned /\ Len(IncomingClusters) > 0) =>
        \A index \in {FullIndex} : \A k \in {EarliestViolated(index)} :
            IF k = 0
            THEN /\ err = NoErr
                 /\ trace = SubSeq(PhaseOrder, 1, IF currentConfig.isNil THEN 4 ELSE 5)
            ELSE /\ err.kind \in PhaseKinds[k]
                 /\ trace = SubSeq(PhaseOrder, 1, k)

\* a configuration that is not a star and also changes a token has failed
\* with a star-shape error, the transition check not entered
C10_Witness ==
    /\ Failed
    /\ err.kind \in PhaseKinds[4]
    /\ Len(trace) = 4
    /\ \E index \in {FullIndex} :
        /\ ShapeViolated(index) /\ TransitionViolated(index)
        /\ ~BasicViolated /\ ~RelevanceViolated(index) /\ ~EdgesViolated(index)

----------------------------------------------------------------------------
(* C11  No partial state on failure.  Whenever Validate on a fresh         *)
(* validator returns an error, IsPChannelIncreasing() reads false, also    *)
(* when the failure is raised after channel growth was observed (a later   *)
(* URI or token mismatch, a growth-mode cluster-set or edge-set mismatch). *)
C11_NoPartialStateOnFailure == Failed => ~isPChannelIncreasing

----------------------------------------------------------------------------
(* C12  Validate's outcome is a function of its four inputs only: a second *)
(* Validate on the same instance, its inputs unchanged, returns the same   *)
(* outcome (success, or the same kind of error) as the first one.          *)
C12_SameOutcomeWhenCalledAgain ==
    (pc = "done" /\ calls = 2) => err.kind = firstErr.kind

----------------------------------------------------------------------------
(* C13  Validate never modifies its inputs: no step of a Validate call,    *)
(* successful or failed, changes the incoming configuration, the current   *)
(* configuration, localClusterID or localPChannels; only the cluster index *)
(* and the growth flag are written.                                        *)
C13_InputsNeverModified == [][inputs' = inputs]_vars

\* a call has returned after writing both the cluster index and the flag
C13_Witness ==
    /\ Returned
    /\ clusterMap # EmptyMap
    /\ isPChannelIncreasing
    /\ Len(currentPChannels) >= 2

----------------------------------------------------------------------------
(* C14  Entry pre-checks.  Validate with an absent incoming configuration  *)
(* fails with "config cannot be nil", and with an incoming configuration   *)
(* whose cluster list is empty fails with "clusters list cannot be empty"; *)
(* in both cases no phase has run and the cluster index is empty, whatever *)
(* the current configuration, the local cluster ID and the edge list are.  *)
C14_EntryPreChecks ==
    pc = "done" =>
        /\ incomingConfig.isNil =>
            /\ err.kind = "config cannot be nil"
            /\ trace = <<>>
            /\ clusterMap = EmptyMap
        /\ (~incomingConfig.isNil /\ Len(incomingConfig.clusters) = 0) =>
            /\ err.kind = "clusters list cannot be empty"
            /\ trace = <<>>
            /\ clusterMap = EmptyMap

\* a configuration without clusters but with an edge, offered as the
\* replacement of a current one, has been rejected
C14_Witness ==
    /\ Returned
    /\ ~incomingConfig.isNil
    /\ Len(incomingConfig.clusters) = 0
    /\ Len(incomingConfig.cross_cluster_topology) > 0
    /\ ~currentConfig.isNil
    /\ err.kind = "clusters list cannot be empty"

----------------------------------------------------------------------------
(* C15  An empty edge list is always topologically valid: an incoming      *)
(* configuration of one or more clusters that passes the cluster-basic and *)
(* relevance checks and has no edges passes the edge-uniqueness and the    *)
(* star-shape phase, so that Validate succeeds when there is no current    *)
(* configuration and enters the transition check when there is one.        *)
C15_EmptyEdgeListValid ==
    (/\ Returned
     /\ ~incomingConfig.isNil
     /\ Len(IncomingEdges) = 0
     /\ "validateTopologyEdgeUniqueness" \in Range(trace))
    => /\ "validateTopologyTypeConstraint" \in Range(trace)
       /\ err.kind \notin PhaseKinds[3] \cup PhaseKinds[4]
       /\ IF currentConfig.isNil
          THEN err = NoErr
          ELSE "validateConfigComparison" \in Range(trace)

\* three clusters without any edge have been accepted
C15_Witness ==
    /\ Succeeded
    /\ currentConfig.isNil
    /\ Len(IncomingClusters) >= 3
    /\ Len(IncomingEdges) = 0

----------------------------------------------------------------------------
(* C16  Without channel growth the transition check constrains only shared *)
(* clusters: if every cluster ID present in both configurations has the    *)
(* same pchannels, URI and token in incoming and current, Validate with    *)
(* the current configuration returns what Validate without a current       *)
(* configuration returns, and growthDetected is false, whatever clusters   *)
(* were added or removed and however the edges changed.                    *)

\* every cluster declared in both configurations is the same in both
SharedClustersUnchanged ==
    \A id \in SharedIds :
        \A i \in ClustersWithId(incomingConfig, id), c \in ClustersWithId(currentConfig, id) :
            /\ GetPchannels(i) = GetPchannels(c)
            /\ GetUri(GetConnectionParam(i)) = GetUri(GetConnectionParam(c))
            /\ GetToken(GetConnectionParam(i)) = GetToken(GetConnectionParam(c))

C16_NoGrowthOnlySharedClusters ==
    (Returned /\ ~currentConfig.isNil /\ SharedClustersUnchanged) =>
        \A without \in {ValidateOutcomes(incomingConfig, NilConfig,
                                         currentClusterID, currentPChannels)} :
            /\ err \in without
            /\ ValidateOutcomes(incomingConfig, currentConfig,
                                currentClusterID, currentPChannels) = without
            /\ ~isPChannelIncreasing

\* accepted although a cluster was added, another removed and the edges
\* replaced, one cluster being kept as it was
C16_Witness ==
    /\ Succeeded /\ ~currentConfig.isNil
    /\ SharedClustersUnchanged
    /\ SharedIds # {}
    /\ ClusterIdsOf(incomingConfig) \ SharedIds # {}
    /\ ClusterIdsOf(currentConfig) \ SharedIds # {}
    /\ EdgePairsOf(incomingConfig) # EdgePairsOf(currentConfig)

----------------------------------------------------------------------------
(* C17  Non-growth edge reversal.  When incoming has the clusters and      *)
(* channel lists of current and every edge of current reversed, and it     *)
(* passes the cluster-basic and relevance checks, the transition check     *)
(* raises no error: Validate fails exactly when the reversed graph is not  *)
(* a star, with a star-shape error whenever the star-shape phase is        *)
(* reached (so for the reversal of a star of three or more clusters), and  *)
(* succeeds when it still is one (two clusters, the single edge reversed). *)

\* the edges of cfg form a star over its clusters, or cfg has no edges
IsStar(cfg) ==
    LET E == GetCrossClusterTopology(cfg)
        sources(id) == Cardinality({i \in 1..Len(E) : GetSourceClusterId(E[i]) = id})
        targets(id) == Cardinality({i \in 1..Len(E) : GetTargetClusterId(E[i]) = id})
    IN  \/ Len(E) = 0
        \/ \E C \in ClusterIdsOf(cfg) :
            /\ sources(C) = Len(E) /\ targets(C) = 0
            /\ \A D \in ClusterIdsOf(cfg) \ {C} : targets(D) = 1 /\ sources(D) = 0

\* incoming is current with every edge reversed
IncomingIsCurrentReversed ==
    /\ ~incomingConfig.isNil /\ ~currentConfig.isNil
    /\ IncomingClusters = CurrentClusters
    /\ Len(IncomingEdges) = Len(CurrentEdges)
    /\ EdgePairsOf(incomingConfig) = {<<p[2], p[1]>> : p \in EdgePairsOf(currentConfig)}

C17_EdgeReversal ==
    (/\ Returned
     /\ IncomingIsCurrentReversed
     /\ "validateTopologyEdgeUniqueness" \in Range(trace))
    => /\ err.kind \notin PhaseKinds[5]
       /\ ~isPChannelIncreasing
       /\ err = NoErr <=> IsStar(incomingConfig)
       /\ ("validateTopologyTypeConstraint" \in Range(trace) /\ err # NoErr)
            => err.kind \in PhaseKinds[4]
       /\ (IsStar(currentConfig) /\ Len(CurrentEdges) >= 2) => err.kind \in PhaseKinds[4]
       /\ (Len(IncomingClusters) = 2 /\ Len(CurrentEdges) = 1 /\ IsStar(currentConfig))
            => err = NoErr

\* the reversal of a star of three clusters has been rejected by the
\* star-shape phase
C17_Witness ==
    /\ Failed
    /\ IncomingIsCurrentReversed
    /\ IsStar(currentConfig)
    /\ Len(CurrentEdges) >= 2
    /\ err.kind \in PhaseKinds[4]

----------------------------------------------------------------------------
(* C18  Validate never accepts a configuration whose edges contain a       *)
(* directed cycle, a self-edge (source = target) included: such a          *)
(* configuration is rejected, and when it reaches the star-shape phase it  *)
(* is rejected there, for every number of clusters.                        *)

\* the nodes reachable from S along at most k edges
RECURSIVE ReachableFrom(_, _, _)
ReachableFrom(pairs, S, k) ==
    IF k = 0 THEN S
    ELSE ReachableFrom(pairs, S \cup {p[2] : p \in {q \in pairs : q[1] \in S}}, k - 1)

\* some edge of cfg lies on a directed cycle
HasCycle(cfg) ==
    LET pairs == EdgePairsOf(cfg)
    IN  \E p \in pairs : p[1] \in ReachableFrom(pairs, {p[2]}, Cardinality(pairs))

C18_NoCycleAccepted ==
    (Returned /\ HasCycle(incomingConfig)) =>
        /\ err # NoErr
        /\ "validateTopologyTypeConstraint" \in Range(trace) => err.kind \in PhaseKinds[4]

\* a cycle through three clusters has been rejected by the star-shape phase
C18_Witness ==
    /\ Failed
    /\ err.kind \in PhaseKinds[4]
    /\ Len(IncomingClusters) = 3
    /\ Len(IncomingEdges) = 3
    /\ \A id \in ClusterIdsOf(incomingConfig) :
        /\ SourceCount(id) = 1 /\ TargetCount(id) = 1
        /\ <<id, id>> \notin EdgePairsOf(incomingConfig)

----------------------------------------------------------------------------
(* C19  Growth acceptance.  If current is itself a valid configuration,    *)
(* incoming has the same cluster IDs, URIs, tokens and edges, every        *)
(* cluster's incoming pchannel list is its current list with the same      *)
(* positive number of new unique channels appended, and localPChannels is  *)
(* a permutation of the local cluster's new list, then Validate succeeds   *)
(* and IsPChannelIncreasing() is true.                                     *)

\* the configuration passes the cluster-basic and both topology phases
IsValidConfiguration(cfg) ==
    LET b == validateClusterBasic(GetClusters(cfg), EmptyMap)
    IN  /\ ~cfg.isNil /\ Len(GetClusters(cfg)) > 0
        /\ b.err = NoErr
        /\ validateTopologyEdgeUniqueness(GetCrossClusterTopology(cfg), b.clusterMap) = NoErr
        /\ validateTopologyTypeConstraint(GetCrossClusterTopology(cfg), b.clusterMap) = {NoErr}

\* the (ID, URI, token) of every cluster of cfg
IdentitiesOf(cfg) ==
    {<<GetClusterId(c), GetUri(GetConnectionParam(c)), GetToken(GetConnectionParam(c))>> :
        c \in Range(GetClusters(cfg))}

\* list is base followed by g channels that are new and distinct
AppendsNew(list, base, g) ==
    /\ Len(list) = Len(base) + g
    /\ SubSeq(list, 1, Len(base)) = base
    /\ \A j, k \in 1..Len(list) : (j # k /\ k > Len(base)) => list[j] # list[k]
    /\ \A k \in (Len(base) + 1)..Len(list) : list[k] # EmptyString

\* incoming is current with g channels appended to every cluster
GrownFromCurrentBy(g) ==
    /\ ~incomingConfig.isNil
    /\ IsValidConfiguration(currentConfig)
    /\ Len(IncomingClusters) = Len(CurrentClusters)
    /\ IdentitiesOf(incomingConfig) = IdentitiesOf(currentConfig)
    /\ Len(IncomingEdges) = Len(CurrentEdges)
    /\ EdgePairsOf(incomingConfig) = EdgePairsOf(currentConfig)
    /\ \A i \in Range(IncomingClusters) :
        \A c \in ClustersWithId(currentConfig, GetClusterId(i)) :
            AppendsNew(GetPchannels(i), GetPchannels(c), g)
    /\ \E c \in ClustersWithId(incomingConfig, currentClusterID) :
            SameMultiset(currentPChannels, GetPchannels(c))

----------------------------------------------------------------------------
(* C20  Adding pchannels is not supported through a configuration change:  *)
(* Validate with a current configuration rejects every incoming            *)
(* configuration in which a cluster present in current declares more       *)
(* pchannels than it does in current.                                      *)
C20_PchannelGrowthRejected ==
    (Returned /\ ~incomingConfig.isNil /\ ~currentConfig.isNil /\ GrowthOfSharedCluster)
    => err # NoErr

----------------------------------------------------------------------------
(* C21  The cluster-basic check is one left-to-right pass that stops at    *)
(* the lowest cluster index at which any rule fails and, within a cluster, *)
(* applies the rules in the order nil cluster, empty ID, whitespace in ID, *)
(* nil connection_param, empty URI, unparseable URI, duplicate URI, empty  *)
(* pchannels, empty or duplicate pchannel, slot-count mismatch, duplicate  *)
(* cluster ID.  So a cluster repeating the ID and the URI of an earlier    *)
(* one is reported as a duplicate URI, and a repeated ID is reported at    *)
(* its second occurrence.                                                  *)

\* the error kinds of the rules, in the order of the claim
BasicRuleKinds ==
    <<{"cluster is nil"}, {"empty clusterID"},
      {"clusterID containing whitespace characters"}, {"nil connection_param"},
      {"empty URI"}, {"invalid URI format"}, {"duplicate URI found"},
      {"empty pchannels"}, {"empty pchannel", "duplicate pchannel"},
      {"pchannels count mismatch"}, {"duplicate clusterID found"}>>

\* rule r fails at the i-th incoming cluster (counted from 1)
BasicRuleFails(i, r) ==
    LET c == IncomingClusters[i]
        id == GetClusterId(c)
        uri == GetUri(GetConnectionParam(c))
        p == GetPchannels(c)
    IN  CASE r = 1 -> c.isNil
          [] r = 2 -> id = EmptyString
          [] r = 3 -> \E k \in 1..Len(id) : id[k] \in Whitespace
          [] r = 4 -> GetConnectionParam(c).isNil
          [] r = 5 -> uri = EmptyString
          [] r = 6 -> ~ParseRequestURI(uri)
          [] r = 7 -> \E j \in 1..(i - 1) : GetUri(GetConnectionParam(IncomingClusters[j])) = uri
          [] r = 8 -> Len(p) = 0
          [] r = 9 -> \E k \in 1..Len(p) : p[k] = EmptyString \/ \E j \in 1..(k - 1) : p[j] = p[k]
          [] r = 10 -> Len(p) # Len(GetPchannels(IncomingClusters[1]))
          [] r = 11 -> \E j \in 1..(i - 1) : GetClusterId(IncomingClusters[j]) = id

C21_BasicCheckOrder ==
    (Returned /\ Len(IncomingClusters) > 0) =>
        LET failing == {i \in 1..Len(IncomingClusters) : \E r \in 1..11 : BasicRuleFails(i, r)}
        IN  IF failing = {}
            THEN err.kind \notin PhaseKinds[1]
            ELSE /\ err.idx = Min(failing) - 1
                 /\ err.kind \in BasicRuleKinds[Min({r \in 1..11 : BasicRuleFails(Min(failing), r)})]
                 /\ trace = <<"validateClusterBasic">>

\* a cluster repeating the ID and the URI of the first one has been
\* reported as a duplicate URI
C21_Witness ==
    /\ Failed
    /\ err.kind = "duplicate URI found"
    /\ err.idx >= 1
    /\ GetClusterId(IncomingClusters[err.idx + 1]) = GetClusterId(IncomingClusters[1])
    /\ GetUri(GetConnectionParam(IncomingClusters[err.idx + 1]))
            = GetUri(GetConnectionParam(IncomingClusters[1]))

----------------------------------------------------------------------------
(* C22  In the transition check the incoming clusters are compared in      *)
(* incoming list order and, for each shared cluster, in the order pchannel *)
(* decrease, pchannel prefix preservation, URI equality, token equality:   *)
(* the error returned is that of the first failing check of the first      *)
(* failing cluster, and a growth-mode error is returned only when every    *)
(* shared cluster has passed.                                              *)

\* the error kinds of the per-cluster checks, in the order of the claim
ConsistencyRuleKinds ==
    <<"pchannels cannot decrease", "existing pchannels must be preserved",
      "connection_param.uri cannot be changed", "connection_param.token cannot be changed">>

\* the i-th incoming cluster (counted from 1) is declared in current too
IsShared(i) == ClustersWithId(currentConfig, GetClusterId(IncomingClusters[i])) # {}

\* check r fails for the i-th incoming cluster against its current declaration
ConsistencyRuleFails(i, r) ==
    \E c \in ClustersWithId(currentConfig, GetClusterId(IncomingClusters[i])) :
        LET now == GetPchannels(IncomingClusters[i])
            was == GetPchannels(c)
        IN  CASE r = 1 -> Len(now) < Len(was)
              [] r = 2 -> \E k \in 1..Len(was) : k > Len(now) \/ now[k] # was[k]
              [] r = 3 -> GetUri(GetConnectionParam(IncomingClusters[i]))
                            # GetUri(GetConnectionParam(c))
              [] r = 4 -> GetToken(GetConnectionParam(IncomingClusters[i]))
                            # GetToken(GetConnectionParam(c))

C22_TransitionCheckOrder ==
    (Returned /\ "validateConfigComparison" \in Range(trace)) =>
        LET failing == {i \in 1..Len(IncomingClusters) :
                            IsShared(i) /\ \E r \in 1..4 : ConsistencyRuleFails(i, r)}
        IN  IF failing = {}
            THEN err.kind \notin Range(ConsistencyRuleKinds)
            ELSE /\ err.idx = Min(failing) - 1
                 /\ err.kind =
                        ConsistencyRuleKinds[Min({r \in 1..4 : ConsistencyRuleFails(Min(failing), r)})]

\* a cluster that loses a channel and changes its URI, behind a cluster
\* that passes, has failed with "pchannels cannot decrease"
C22_Witness ==
    /\ Failed
    /\ err.kind = "pchannels cannot decrease"
    /\ err.idx >= 1
    /\ IsShared(1)
    /\ ConsistencyRuleFails(err.idx + 1, 3)

----------------------------------------------------------------------------
(* C24  A newly constructed validator has an empty cluster index and the   *)
(* growth flag false; after the cluster-basic check has succeeded on it,   *)
(* the cluster index maps exactly the set of incoming cluster IDs, each to *)
(* its own cluster, so its size equals the number of incoming clusters.    *)

\* the validator is as NewReplicateConfigValidator left it
NewlyConstructed == pc = "new" /\ calls = 0

\* validateClusterBasic has returned nil in the first call on the instance
BasicSucceeded == calls = 1 /\ pc = "validateRelevance"

C24_ClusterIndexPopulated ==
    /\ NewlyConstructed => (DOMAIN clusterMap = {} /\ ~isPChannelIncreasing)
    /\ BasicSucceeded =>
        /\ DOMAIN clusterMap = ClusterIdsOf(incomingConfig)
        /\ \A i \in 1..Len(IncomingClusters) :
              clusterMap[GetClusterId(IncomingClusters[i])] = IncomingClusters[i]
        /\ Cardinality(DOMAIN clusterMap) = Len(IncomingClusters)

\* the check has succeeded on a list of MaxClusters clusters
C24_Witness ==
    /\ BasicSucceeded
    /\ Len(IncomingClusters) = MaxClusters
    /\ Cardinality(DOMAIN clusterMap) = MaxClusters

----------------------------------------------------------------------------
(* C25  Through Validate the error "multiple center nodes found" is        *)
(* unreachable: once the cluster-basic and edge-uniqueness phases have     *)
(* passed, at most one cluster has out-degree |clusters| - 1 and in-degree *)
(* 0, so the star-shape phase fails only with "no center node found" or    *)
(* with the leaf-degree error.                                             *)

\* the declared clusters with out-degree |clusters| - 1 and in-degree 0
QualifyingCenters ==
    {id \in ClusterIdsOf(incomingConfig) :
        /\ SourceCount(id) = Cardinality(ClusterIdsOf(incomingConfig)) - 1
        /\ TargetCount(id) = 0}

C25_NoMultipleCenters ==
    /\ err.kind # "multiple center nodes found"
    /\ pc = "validateTopologyTypeConstraint" => Cardinality(QualifyingCenters) <= 1
    /\ (Failed /\ Len(trace) > 0 /\ trace[Len(trace)] = "validateTopologyTypeConstraint")
          => err.kind \in {"no center node found", "does not follow star topology pattern"}

\* the star-shape phase has rejected edges between three clusters, one of
\* which qualifies as center
C25_Witness ==
    /\ Failed
    /\ err.kind = "does not follow star topology pattern"
    /\ Len(IncomingClusters) = 3
    /\ Cardinality(QualifyingCenters) = 1

----------------------------------------------------------------------------
(* C26  When the edge list is non-empty, Validate rejects every            *)
(* configuration that declares a cluster which is neither source nor       *)
(* target of any edge; so an accepted configuration with edges has at      *)
(* least two clusters and exactly |clusters| - 1 edges, and a star of      *)
(* three or more clusters with one leaf's edge removed, the leaf still     *)
(* declared, is rejected.                                                  *)

\* the declared clusters that no incoming edge touches
IsolatedClusters ==
    {id \in ClusterIdsOf(incomingConfig) : SourceCount(id) = 0 /\ TargetCount(id) = 0}

\* incoming is a star of three or more clusters less the edge of one leaf
StarLessOneLeafEdge ==
    /\ Len(IncomingClusters) >= 3
    /\ Len(IncomingEdges) = Len(IncomingClusters) - 2
    /\ Cardinality(IsolatedClusters) = 1
    /\ \E C \in ClusterIdsOf(incomingConfig) :
        /\ SourceCount(C) = Len(IncomingEdges) /\ TargetCount(C) = 0
        /\ \A D \in ClusterIdsOf(incomingConfig) \ ({C} \cup IsolatedClusters) :
              TargetCount(D) = 1

C26_NoIsolatedCluster ==
    /\ (Returned /\ Len(IncomingEdges) > 0 /\ IsolatedClusters # {}) => Failed
    /\ (Succeeded /\ Len(IncomingEdges) > 0) =>
          /\ Len(IncomingClusters) >= 2
          /\ Len(IncomingEdges) = Len(IncomingClusters) - 1
    /\ (Returned /\ StarLessOneLeafEdge) => Failed

\* a star of three clusters less one leaf's edge, otherwise valid, has been
\* rejected by the star-shape phase
C26_Witness ==
    /\ Failed
    /\ StarLessOneLeafEdge
    /\ err.kind \in PhaseKinds[4]

----------------------------------------------------------------------------
(* C27  The accept/reject result and the kind of error returned by         *)
(* Validate do not depend on the order in which the cluster index, the     *)
(* current-cluster index or the degree maps are iterated: two runs on      *)
(* equal inputs return the same kind of outcome, and only the cluster      *)
(* named in a star-pattern or cluster-set message may differ.              *)

\* what a first Validate() call on the inputs of this instance can return,
\* over all iteration orders
OutcomesOfInputs ==
    ValidateOutcomes(incomingConfig, currentConfig, currentClusterID, currentPChannels)

C27_IterationOrderIndependent ==
    Returned =>
        \A e \in OutcomesOfInputs :
            /\ e.kind = err.kind
            /\ e.idx = err.idx
            /\ e.id # err.id =>
                  err.kind \in {"does not follow star topology pattern",
                                "cluster set must remain identical"}

\* a call has returned an error that names one of several clusters, which
\* another iteration order would have named differently
C27_Witness ==
    /\ Failed
    /\ err.kind = "does not follow star topology pattern"
    /\ \E e \in OutcomesOfInputs : e.id # err.id

----------------------------------------------------------------------------
(* C28  Uniform growth: if the current configuration is itself valid and   *)
(* Validate succeeds with the growth flag set, then every cluster of       *)
(* incoming is also in current and every one of them has grown by the same *)
(* positive number of channels; no cluster keeps its old channel count     *)
(* while another grows.                                                    *)

\* every incoming cluster has g channels more than its current declaration
EveryClusterGrewBy(g) ==
    \A i \in Range(IncomingClusters) :
        \A c \in ClustersWithId(currentConfig, GetClusterId(i)) :
            Len(GetPchannels(i)) = Len(GetPchannels(c)) + g

C28_UniformGrowth ==
    (Succeeded /\ isPChannelIncreasing /\ IsValidConfiguration(currentConfig)) =>
        /\ ClusterIdsOf(incomingConfig) \subseteq ClusterIdsOf(currentConfig)
        /\ \E g \in 1..MaxPChannels : EveryClusterGrewBy(g)

\* growth of a valid configuration of several clusters has been accepted
C28_Witness ==
    /\ Succeeded /\ isPChannelIncreasing
    /\ IsValidConfiguration(currentConfig)
    /\ Len(IncomingClusters) >= 2
    /\ EveryClusterGrewBy(1)

----------------------------------------------------------------------------
(* C29  Growth is accepted only when the local cluster already has the new *)
(* channels: whenever Validate succeeds with the growth flag set,          *)
(* localPChannels contains every channel of the local cluster's current    *)
(* declaration plus the appended ones, so it is strictly longer than that  *)
(* current declaration; a growth request submitted while localPChannels    *)
(* still equals the old list fails at the relevance phase, before the      *)
(* transition check.                                                       *)

\* the current declarations of the local cluster
LocalInCurrent == ClustersWithId(currentConfig, currentClusterID)

\* the incoming declarations of the local cluster
LocalInIncoming == ClustersWithId(incomingConfig, currentClusterID)

\* localPChannels holds every channel of list, and more
LocalHoldsMoreThan(list) ==
    /\ \A x \in Range(list) : Occurrences(currentPChannels, x) >= Occurrences(list, x)
    /\ Len(currentPChannels) > Len(list)

\* incoming grows the local cluster while localPChannels is still the
\* current declaration
GrowthWithOldLocalList ==
    \E c \in LocalInCurrent, i \in LocalInIncoming :
        /\ Len(GetPchannels(i)) > Len(GetPchannels(c))
        /\ currentPChannels = GetPchannels(c)

\* C29 as stated, for every current configuration: violated when the current
\* configuration declares clusters of different channel counts and only
\* another cluster grows
C29_AnyCurrent ==
    (Succeeded /\ isPChannelIncreasing) =>
        /\ LocalInCurrent # {}
        /\ \A c \in LocalInCurrent : LocalHoldsMoreThan(GetPchannels(c))

\* C29 amended: whenever the current configuration is itself valid and
\* Validate succeeds with the growth flag set, localPChannels contains every
\* channel of the local cluster's current declaration plus the appended
\* ones, so it is strictly longer than that current declaration; a growth
\* request submitted while localPChannels still equals the old list fails at
\* the relevance phase, before the transition check.
C29_LocalHasNewChannels ==
    /\ (Succeeded /\ isPChannelIncreasing /\ IsValidConfiguration(currentConfig)) =>
          /\ LocalInCurrent # {}
          /\ \A c \in LocalInCurrent : LocalHoldsMoreThan(GetPchannels(c))
          /\ \A i \in LocalInIncoming : SameMultiset(currentPChannels, GetPchannels(i))
    /\ (Returned /\ GrowthWithOldLocalList /\ "validateRelevance" \in Range(trace)) =>
          /\ err.kind = "current pchannels do not match"
          /\ "validateConfigComparison" \notin Range(trace)

\* growth of a valid configuration has been accepted with the local list
\* already grown
C29_Witness ==
    /\ Succeeded /\ isPChannelIncreasing
    /\ IsValidConfiguration(currentConfig)
    /\ \E c \in LocalInCurrent : LocalHoldsMoreThan(GetPchannels(c))

----------------------------------------------------------------------------
(* Direct calls.  The tests of the package call equalIgnoreOrder on its    *)
(* own, and validateTopologyTypeConstraint on a validator written as a     *)
(* literal with only its clusterMap filled in                              *)
(* (config_validator_test.go:613-703, 705-747).  SpecDirect draws the      *)
(* arguments from bounded sets and makes the one call.                     *)

\* longest argument of equalIgnoreOrder
MaxLen == 3

\* the elements of the arguments of equalIgnoreOrder
ElementPool == {ChP, ChQ, EmptyString}

\* the keys of a clusterMap literal
KeyPool == {IdA, IdB, IdC, EmptyString}

\* the endpoints of the edges handed to the star-shape check; IdZ is never a key
EndpointPool == <<IdA, IdB, IdZ, EmptyString>>

\* every edge between two endpoints of the pool, then a nil edge
DirectEdgePool ==
    [k \in 1..(Len(EndpointPool) * Len(EndpointPool)) |->
        CrossClusterTopology(EndpointPool[((k - 1) \div Len(EndpointPool)) + 1],
                             EndpointPool[((k - 1) % Len(EndpointPool)) + 1])]
    \o <<NilTopology>>

\* the edge lists of at most MaxEdges edges of the pool, repeated edges
\* included, each multiset of edges in one order
DirectEdgeLists ==
    {[i \in 1..Len(s) |-> DirectEdgePool[s[i]]] :
        s \in {t \in SeqsUpTo(1..Len(DirectEdgePool), MaxEdges) :
                    \A i \in 1..(Len(t) - 1) : t[i] <= t[i + 1]}}

\* the clusterMap literals of at most MaxClusters clusters
DirectClusterMaps ==
    {[id \in K |-> MilvusCluster(id, ConnectionParam(Uri1, Tok1), Canon(1))] :
        K \in SubsetsUpTo(KeyPool, MaxClusters)}

InitDirect ==
    /\ incomingConfig = NilConfig
    /\ currentConfig = NilConfig
    /\ currentClusterID = EmptyString
    /\ currentPChannels = <<>>
    /\ isPChannelIncreasing = FALSE
    /\ err = NoErr
    /\ trace = <<>>
    /\ calls = 0
    /\ firstErr = Pending
    /\ result = FALSE
    /\ \/ /\ pc = "call equalIgnoreOrder"
          /\ argA \in SeqsUpTo(ElementPool, MaxLen)
          /\ argB \in SeqsUpTo(ElementPool, MaxLen)
          /\ clusterMap = EmptyMap
          /\ argTopologies = <<>>
       \/ /\ pc = "call validateTopologyTypeConstraint"
          /\ argA = <<>>
          /\ argB = <<>>
          /\ clusterMap \in DirectClusterMaps
          /\ argTopologies \in DirectEdgeLists

\* equalIgnoreOrder(a, b)
CallEqualIgnoreOrder ==
    /\ pc = "call equalIgnoreOrder"
    /\ result' = equalIgnoreOrder(argA, argB)
    /\ pc' = "returned"
    /\ trace' = <<"equalIgnoreOrder">>
    /\ UNCHANGED <<inputs, clusterMap, isPChannelIncreasing, err, calls, firstErr,
                   argA, argB, argTopologies>>

\* validator.validateTopologyTypeConstraint(topologies)
CallValidateTopologyTypeConstraint ==
    /\ pc = "call validateTopologyTypeConstraint"
    /\ err' \in validateTopologyTypeConstraint(argTopologies, clusterMap)
    /\ pc' = "returned"
    /\ trace' = <<"validateTopologyTypeConstraint">>
    /\ UNCHANGED <<inputs, clusterMap, isPChannelIncreasing, calls, firstErr, direct>>

NextDirect ==
    \/ CallEqualIgnoreOrder
    \/ CallValidateTopologyTypeConstraint

SpecDirect == InitDirect /\ [][NextDirect]_vars

\* the direct call of the named function has returned
DirectReturned(fn) == pc = "returned" /\ trace = <<fn>>

----------------------------------------------------------------------------
(* C23  equalIgnoreOrder(a, b) returns true if and only if a and b are     *)
(* equal as multisets (same length, every element the same number of times *)
(* in both), for all finite sequences including empty ones and sequences   *)
(* with repeated elements; consequently it is reflexive and symmetric.     *)

C23_EqualIgnoreOrderIsMultisetEquality ==
    DirectReturned("equalIgnoreOrder") =>
        /\ result = SameMultiset(argA, argB)
        /\ argA = argB => result
        /\ result = equalIgnoreOrder(argB, argA)

\* true has been returned for two different lists of MaxLen elements, one
\* element repeated
C23_Witness ==
    /\ DirectReturned("equalIgnoreOrder")
    /\ result
    /\ argA # argB
    /\ Len(argA) = MaxLen
    /\ \E i, j \in 1..Len(argA) : i # j /\ argA[i] = argA[j]

----------------------------------------------------------------------------
(* C30  The star-shape check called on its own, with any cluster index and *)
(* any non-empty edge list (including lists with repeated edges or         *)
(* endpoints that are not declared clusters), succeeds only if the edges   *)
(* form a star over the declared clusters: one center with an edge to      *)
(* every other declared cluster, and no other edges.                       *)

\* the edges handed to the check form a star over the keys of clusterMap
EdgesFormStarOverIndex ==
    \E C \in DOMAIN clusterMap :
        /\ \A D \in DOMAIN clusterMap \ {C} :
              Cardinality({i \in 1..Len(argTopologies) :
                  /\ GetSourceClusterId(argTopologies[i]) = C
                  /\ GetTargetClusterId(argTopologies[i]) = D}) = 1
        /\ Len(argTopologies) = Cardinality(DOMAIN clusterMap) - 1

\* every endpoint of every edge handed to the check is a key of clusterMap
EndpointsDeclared ==
    \A i \in 1..Len(argTopologies) :
        /\ GetSourceClusterId(argTopologies[i]) \in DOMAIN clusterMap
        /\ GetTargetClusterId(argTopologies[i]) \in DOMAIN clusterMap

\* the check has returned nil for a non-empty edge list
StarCheckSucceeded ==
    /\ DirectReturned("validateTopologyTypeConstraint")
    /\ Len(argTopologies) > 0
    /\ err = NoErr

\* C30 as stated, for any edge list: violated by an edge between clusters
\* that are not declared, which the degree maps of the declared clusters
\* never show
C30_AnyEdgeList == StarCheckSucceeded => EdgesFormStarOverIndex

\* C30 amended: the star-shape check called on its own, with any cluster
\* index and any non-empty edge list whose endpoints are all declared
\* clusters (including lists with repeated edges), succeeds only if the
\* edges form a star over the declared clusters: one center with an edge to
\* every other declared cluster, and no other edges.
C30_StarWhenCalledAlone ==
    (StarCheckSucceeded /\ EndpointsDeclared) => EdgesFormStarOverIndex

\* the check has accepted a star over three declared clusters
C30_Witness ==
    /\ StarCheckSucceeded
    /\ EndpointsDeclared
    /\ Cardinality(DOMAIN clusterMap) = 3

====
